---- MODULE Spec2Model ----
(***************************************************************************)
(* A model of src/tokenizer.ts: tokenize(source), a single forward scan    *)
(* that turns a string into a sequence of tokens {type, value, line,       *)
(* column}, and the two filters stripComments and stripWhitespace.         *)
(*                                                                         *)
(* A string is a sequence of one-character strings.  Offsets are 0-based   *)
(* as in the source; lines and columns are 1-based.  One step of Spec is   *)
(* one iteration of the scan loop (one branch of its if-chain, inner loop  *)
(* included); one step of FilterSpec is one call of a filter.              *)
(***************************************************************************)
EXTENDS Integers, Sequences, FiniteSets

VARIABLES source, pos, line, column, tokens, starts, discarded, pc,
          input, output, applied

vars == <<source, pos, line, column, tokens, starts, discarded, pc,
          input, output, applied>>

scanVars == <<source, pos, line, column, tokens, starts, discarded, pc>>
filterVars == <<input, output, applied>>

(***************************************************************************)
(* Bounds of the model.                                                    *)
(***************************************************************************)
MaxLen == 4
MaxTokens == 3
MaxApplied == 2
MaxLongLen == 5

\* The characters the inputs are drawn from: one or more of every class the
\* if-chain of tokenize tells apart.
Alphabet == {" ", "\n", "/", "\"", "'", "\\", "1", ".", "i", "f", "=", "!"}

Sources == UNION {[1..n -> Alphabet] : n \in 0..MaxLen}

(***************************************************************************)
(* Constants of the program.                                               *)
(***************************************************************************)
TokenType == {"keyword", "identifier", "number", "string", "operator",
              "punctuation", "whitespace", "comment"}

KEYWORDS == { <<"i","f">>, <<"e","l","s","e">>, <<"w","h","i","l","e">>,
              <<"f","o","r">>, <<"r","e","t","u","r","n">>,
              <<"f","u","n","c","t","i","o","n">>, <<"c","o","n","s","t">>,
              <<"l","e","t">>, <<"v","a","r">> }

OPERATORS == { <<"+">>, <<"-">>, <<"*">>, <<"/">>, <<"=">>, <<"=","=">>,
               <<"!","=">>, <<"<">>, <<">">>, <<"<","=">>, <<">","=">>,
               <<"&","&">>, <<"|","|">> }

PUNCTUATION == {"(", ")", "{", "}", "[", "]", ";", ",", "."}

\* /\s/ (the characters of it that a model string can hold)
WhitespaceChars == {" ", "\t", "\n", "\r", "\f"}

\* /[0-9]/
Digits == {"0", "1", "2", "3", "4", "5", "6", "7", "8", "9"}

\* /[a-zA-Z_]/
IdentStart == {"a","b","c","d","e","f","g","h","i","j","k","l","m",
               "n","o","p","q","r","s","t","u","v","w","x","y","z",
               "A","B","C","D","E","F","G","H","I","J","K","L","M",
               "N","O","P","Q","R","S","T","U","V","W","X","Y","Z", "_"}

\* /[a-zA-Z0-9_]/
IdentPart == IdentStart \cup Digits

\* /[0-9.]/
NumberPart == Digits \cup {"."}

(***************************************************************************)
(* String primitives of the language the program is written in.            *)
(***************************************************************************)
Min(a, b) == IF a <= b THEN a ELSE b

\* s[i]: the character at the 0-based offset i, undefined out of range
CharAt(s, i) == IF i >= 0 /\ i < Len(s) THEN s[i + 1] ELSE "undefined"

At(i) == CharAt(source, i)

\* A plausible slip: the end offset taken as inclusive of one character less.
SliceShort(s, a, b) == SubSeq(s, a + 1, Min(b, Len(s)) - 1)

\* s.slice(a, b) for 0 <= a: the characters at offsets a .. b-1, b clamped to
\* the length
Slice(s, a, b) == SubSeq(s, a + 1, Min(b, Len(s)))

(***************************************************************************)
(* The inner loops of tokenize, each returning the cursor it stops at.     *)
(***************************************************************************)
RECURSIVE WhitespaceRun(_, _, _)
WhitespaceRun(p, l, c) ==
  IF p < Len(source) /\ At(p) \in WhitespaceChars
  THEN IF At(p) = "\n"
       THEN WhitespaceRun(p + 1, l + 1, 1)
       ELSE WhitespaceRun(p + 1, l, c + 1)
  ELSE [pos |-> p, line |-> l, column |-> c]

RECURSIVE CommentRun(_)
CommentRun(p) ==
  IF p < Len(source) /\ At(p) # "\n" THEN CommentRun(p + 1) ELSE p

\* A plausible slip: the backslash is not treated as an escape.
RECURSIVE StringRunNoEscape(_, _)
StringRunNoEscape(p, quote) ==
  IF p < Len(source) /\ At(p) # quote
  THEN StringRunNoEscape(p + 1, quote)
  ELSE p

RECURSIVE StringRun(_, _)
StringRun(p, quote) ==
  IF p < Len(source) /\ At(p) # quote
  THEN StringRun((IF At(p) = "\\" THEN p + 1 ELSE p) + 1, quote)
  ELSE p

RECURSIVE NumberRun(_)
NumberRun(p) ==
  IF p < Len(source) /\ At(p) \in NumberPart THEN NumberRun(p + 1) ELSE p

RECURSIVE IdentifierRun(_)
IdentifierRun(p) ==
  IF p < Len(source) /\ At(p) \in IdentPart THEN IdentifierRun(p + 1) ELSE p

\* A plausible slip: startsWith instead of set membership.
KeywordsHasPrefix(value) ==
  \E kw \in KEYWORDS :
     Len(kw) <= Len(value) /\ SubSeq(value, 1, Len(kw)) = kw

\* KEYWORDS.has(value)
KeywordsHas(value) == value \in KEYWORDS

(***************************************************************************)
(* The if-chain of the scan loop: the branch taken at the cursor.          *)
(***************************************************************************)
\* A plausible slip: the one-character operators tested before the
\* two-character ones.
BranchSingleFirst ==
  LET char == At(pos) IN
  IF char \in WhitespaceChars THEN "whitespace"
  ELSE IF char = "/" /\ At(pos + 1) = "/" THEN "comment"
  ELSE IF char = "\"" \/ char = "'" THEN "string"
  ELSE IF char \in Digits THEN "number"
  ELSE IF char \in IdentStart THEN "identifier"
  ELSE IF <<char>> \in OPERATORS THEN "singleCharOperator"
  ELSE IF pos + 1 < Len(source) /\ Slice(source, pos, pos + 2) \in OPERATORS
       THEN "multiCharOperator"
  ELSE IF char \in PUNCTUATION THEN "punctuation"
  ELSE "unknown"

Branch ==
  LET char == At(pos) IN
  IF char \in WhitespaceChars THEN "whitespace"
  ELSE IF char = "/" /\ At(pos + 1) = "/" THEN "comment"
  ELSE IF char = "\"" \/ char = "'" THEN "string"
  ELSE IF char \in Digits THEN "number"
  ELSE IF char \in IdentStart THEN "identifier"
  ELSE IF pos + 1 < Len(source) /\ Slice(source, pos, pos + 2) \in OPERATORS
       THEN "multiCharOperator"
  ELSE IF <<char>> \in OPERATORS THEN "singleCharOperator"
  ELSE IF char \in PUNCTUATION THEN "punctuation"
  ELSE "unknown"

Token(t, v, l, c) == [type |-> t, value |-> v, line |-> l, column |-> c]

\* tokens.push(tok), with the offset the token was cut from
Push(tok, start) ==
  /\ tokens' = Append(tokens, tok)
  /\ starts' = Append(starts, start)

Scanning == pc = "scan" /\ pos < Len(source)

(***************************************************************************)
(* tokenize: the state after its declarations, and one action per branch.  *)
(***************************************************************************)
Init ==
  /\ source \in Sources
  /\ pos = 0
  /\ line = 1
  /\ column = 1
  /\ tokens = <<>>
  /\ starts = <<>>
  /\ discarded = {}
  /\ pc = "scan"
  /\ input = <<>>
  /\ output = <<>>
  /\ applied = <<>>

Whitespace ==
  /\ Scanning
  /\ Branch = "whitespace"
  /\ LET start == pos
         r == WhitespaceRun(pos, line, column)
     IN /\ pos' = r.pos
        /\ line' = r.line
        /\ column' = r.column
        /\ Push(Token("whitespace", Slice(source, start, r.pos), r.line,
                      r.column - (r.pos - start)), start)
  /\ UNCHANGED <<source, discarded, pc, filterVars>>

Comment ==
  /\ Scanning
  /\ Branch = "comment"
  /\ LET start == pos
         startCol == column
         end == CommentRun(pos)
     IN /\ pos' = end
        /\ column' = column + (end - start)
        /\ Push(Token("comment", Slice(source, start, end), line, startCol),
                start)
  /\ UNCHANGED <<source, line, discarded, pc, filterVars>>

String ==
  /\ Scanning
  /\ Branch = "string"
  /\ LET quote == At(pos)
         start == pos
         startCol == column
         end == StringRun(pos + 1, quote) + 1
     IN /\ pos' = end
        /\ column' = column + (end - start)
        /\ Push(Token("string", Slice(source, start, end), line, startCol),
                start)
  /\ UNCHANGED <<source, line, discarded, pc, filterVars>>

Number ==
  /\ Scanning
  /\ Branch = "number"
  /\ LET start == pos
         startCol == column
         end == NumberRun(pos)
     IN /\ pos' = end
        /\ column' = column + (end - start)
        /\ Push(Token("number", Slice(source, start, end), line, startCol),
                start)
  /\ UNCHANGED <<source, line, discarded, pc, filterVars>>

Identifier ==
  /\ Scanning
  /\ Branch = "identifier"
  /\ LET start == pos
         startCol == column
         end == IdentifierRun(pos)
         value == Slice(source, start, end)
     IN /\ pos' = end
        /\ column' = column + (end - start)
        /\ Push(Token(IF KeywordsHas(value) THEN "keyword" ELSE "identifier",
                      value, line, startCol), start)
  /\ UNCHANGED <<source, line, discarded, pc, filterVars>>

\* A plausible slip: the cursor moves past one character of the pair only.
MultiCharOperatorAdvanceOne ==
  /\ Scanning
  /\ Branch = "multiCharOperator"
  /\ LET twoChar == Slice(source, pos, pos + 2)
     IN Push(Token("operator", twoChar, line, column), pos)
  /\ pos' = pos + 1
  /\ column' = column + 1
  /\ UNCHANGED <<source, line, discarded, pc, filterVars>>

MultiCharOperator ==
  /\ Scanning
  /\ Branch = "multiCharOperator"
  /\ LET twoChar == Slice(source, pos, pos + 2)
     IN Push(Token("operator", twoChar, line, column), pos)
  /\ pos' = pos + 2
  /\ column' = column + 2
  /\ UNCHANGED <<source, line, discarded, pc, filterVars>>

SingleCharOperator ==
  /\ Scanning
  /\ Branch = "singleCharOperator"
  /\ Push(Token("operator", <<At(pos)>>, line, column), pos)
  /\ pos' = pos + 1
  /\ column' = column + 1
  /\ UNCHANGED <<source, line, discarded, pc, filterVars>>

Punctuation ==
  /\ Scanning
  /\ Branch = "punctuation"
  /\ Push(Token("punctuation", <<At(pos)>>, line, column), pos)
  /\ pos' = pos + 1
  /\ column' = column + 1
  /\ UNCHANGED <<source, line, discarded, pc, filterVars>>

\* A plausible slip: the skip counts the column and forgets the cursor.
UnknownStuck ==
  /\ Scanning
  /\ Branch = "unknown"
  /\ discarded' = discarded \cup {pos}
  /\ column' = column + 1
  /\ UNCHANGED <<source, pos, line, tokens, starts, pc, filterVars>>

Unknown ==
  /\ Scanning
  /\ Branch = "unknown"
  /\ discarded' = discarded \cup {pos}
  /\ pos' = pos + 1
  /\ column' = column + 1
  /\ UNCHANGED <<source, line, tokens, starts, pc, filterVars>>

Return ==
  /\ pc = "scan"
  /\ ~(pos < Len(source))
  /\ pc' = "done"
  /\ UNCHANGED <<source, pos, line, column, tokens, starts, discarded,
                 filterVars>>

Next ==
  \/ Whitespace
  \/ Comment
  \/ String
  \/ Number
  \/ Identifier
  \/ MultiCharOperator
  \/ SingleCharOperator
  \/ Punctuation
  \/ Unknown
  \/ Return

Spec == Init /\ [][Next]_vars

\* tokenize on longer inputs over fewer characters (one of every class
\* still): long enough for a comment after a string that spans two lines.
ShortAlphabet == {"\n", "/", "'", "1", "i", "=", ".", "!"}

LongSources == UNION {[1..n -> ShortAlphabet] : n \in 0..MaxLongLen}

LongInit ==
  /\ source \in LongSources
  /\ pos = 0
  /\ line = 1
  /\ column = 1
  /\ tokens = <<>>
  /\ starts = <<>>
  /\ discarded = {}
  /\ pc = "scan"
  /\ input = <<>>
  /\ output = <<>>
  /\ applied = <<>>

LongSpec == LongInit /\ [][Next]_vars

\* tokenize runs to completion once called: the loop is sequential code that
\* nothing suspends, so an iteration that can run does run.
FairSpec == Spec /\ WF_vars(Next)

(***************************************************************************)
(* The filters.  FilterSpec applies them, in any order and repeatedly, to  *)
(* an arbitrary token sequence.                                            *)
(***************************************************************************)
\* A plausible slip: === for !==.
stripCommentsInverted(toks) ==
  SelectSeq(toks, LAMBDA t : t.type = "comment")

stripComments(toks) ==
  SelectSeq(toks, LAMBDA t : t.type # "comment")

\* A plausible slip: the whitespace that ends a comment is kept.
stripWhitespaceKeepAfterComment(toks) ==
  LET keep == {i \in 1..Len(toks) :
                 \/ toks[i].type # "whitespace"
                 \/ (i > 1 /\ toks[i - 1].type = "comment")}
      F[i \in 0..Len(toks)] ==
        IF i = 0 THEN <<>>
        ELSE IF i \in keep THEN Append(F[i - 1], toks[i]) ELSE F[i - 1]
  IN F[Len(toks)]

stripWhitespace(toks) ==
  SelectSeq(toks, LAMBDA t : t.type # "whitespace")

\* The tokens the inputs of the filters are made of: every type, and fields
\* that differ between tokens of one type.
TokenUniverse ==
  [type : TokenType, value : {<<"a">>}, line : {1, 2}, column : {1}]

TokenSeqs == UNION {[1..n -> TokenUniverse] : n \in 0..MaxTokens}

FilterInit ==
  /\ source = <<>>
  /\ pos = 0
  /\ line = 1
  /\ column = 1
  /\ tokens = <<>>
  /\ starts = <<>>
  /\ discarded = {}
  /\ pc = "done"
  /\ input \in TokenSeqs
  /\ output = input
  /\ applied = <<>>

StripComments ==
  /\ Len(applied) < MaxApplied
  /\ output' = stripComments(output)
  /\ applied' = Append(applied, "stripComments")
  /\ UNCHANGED <<input, scanVars>>

StripWhitespace ==
  /\ Len(applied) < MaxApplied
  /\ output' = stripWhitespace(output)
  /\ applied' = Append(applied, "stripWhitespace")
  /\ UNCHANGED <<input, scanVars>>

FilterNext ==
  \/ StripComments
  \/ StripWhitespace

FilterSpec == FilterInit /\ [][FilterNext]_vars

(***************************************************************************)
(* Positions of the source, counted from the text alone.                   *)
(***************************************************************************)
Max(S) == CHOOSE x \in S : \A y \in S : y <= x
Least(S) == CHOOSE x \in S : \A y \in S : x <= y

LineFeedsBefore(off) == {i \in 0..(off - 1) : At(i) = "\n"}

\* the 1-based line of the character at offset off
LineOf(off) == 1 + Cardinality(LineFeedsBefore(off))

\* the 1-based column of the character at offset off
ColumnOf(off) ==
  IF LineFeedsBefore(off) = {} THEN off + 1
  ELSE off - Max(LineFeedsBefore(off))

RECURSIVE ConcatValues(_)
ConcatValues(toks) ==
  IF toks = <<>> THEN <<>>
  ELSE Head(toks).value \o ConcatValues(Tail(toks))

IsPrefix(a, b) == Len(a) <= Len(b) /\ SubSeq(b, 1, Len(a)) = a
IsSuffix(a, b) == Len(a) <= Len(b) /\ SubSeq(b, Len(b) - Len(a) + 1, Len(b)) = a

\* In the literal opened at offset s, the backslash at offset p escapes the
\* character after it: an even number of backslashes stands right before it.
EscapingBackslash(s, p) ==
  /\ p > s
  /\ At(p) = "\\"
  /\ LET stop == Max({j \in s..(p - 1) : j = s \/ At(j) # "\\"})
     IN (p - 1 - stop) % 2 = 0

\* the offsets at which the literal opened at offset s can close
ClosingQuotes(s) ==
  {p \in (s + 1)..(Len(source) - 1) :
     At(p) = At(s) /\ ~EscapingBackslash(s, p - 1)}

Quotes == {"\"", "'"}

(***************************************************************************)
(* C1. Losslessness: when tokenize has returned and discarded no character *)
(* of the source, the values of the tokens, concatenated in order, are the *)
(* source.                                                                 *)
(***************************************************************************)
Losslessness ==
  (pc = "done" /\ discarded = {}) => ConcatValues(tokens) = source

\* a comment, a whitespace run with a line feed and an unterminated string
LosslessnessWitness ==
  /\ pc = "done"
  /\ discarded = {}
  /\ Len(tokens) = 3
  /\ tokens[1].type = "comment"
  /\ tokens[2].type = "whitespace" /\ tokens[2].value = <<"\n">>
  /\ tokens[3].type = "string" /\ Len(tokens[3].value) = 1

(***************************************************************************)
(* C2. Every token's line is the line of its first character: 1 plus the   *)
(* number of line feeds of the source before the token's start offset.     *)
(***************************************************************************)
LineIsLineOfFirstChar ==
  \A k \in 1..Len(tokens) : tokens[k].line = LineOf(starts[k])

(***************************************************************************)
(* C3. Every token that is not whitespace has the column of its first      *)
(* character: 1 plus the number of characters between the last line feed   *)
(* before its start offset (or the start of the input) and that offset.    *)
(***************************************************************************)
ColumnIsColumnOfFirstChar ==
  \A k \in 1..Len(tokens) :
     tokens[k].type # "whitespace" => tokens[k].column = ColumnOf(starts[k])

(***************************************************************************)
(* C4. Every whitespace token has the column at which its run starts,      *)
(* whether or not the run spans a line feed, so its column is at least 1.  *)
(***************************************************************************)
WhitespaceColumnIsStartColumn ==
  \A k \in 1..Len(tokens) :
     tokens[k].type = "whitespace" =>
        /\ tokens[k].column = ColumnOf(starts[k])
        /\ tokens[k].column >= 1

(***************************************************************************)
(* C5. Operator maximal munch: an iteration that starts at one of the      *)
(* pairs ==, !=, <=, >=, &&, || emits one operator token holding the pair  *)
(* and moves past both characters; an iteration that starts at one of      *)
(* + - * / = < > that starts neither such a pair nor // emits one operator *)
(* token holding that character, also at the end of the input.             *)
(***************************************************************************)
PairOperators == { <<"=","=">>, <<"!","=">>, <<"<","=">>, <<">","=">>,
                   <<"&","&">>, <<"|","|">> }
CharOperators == {"+", "-", "*", "/", "=", "<", ">"}

EmitsOperator(v) ==
  /\ tokens' = Append(tokens, Token("operator", v, line, column))
  /\ pos' = pos + Len(v)

OperatorMaximalMunch ==
  [][ Scanning =>
        LET pair == <<At(pos), At(pos + 1)>> IN
        /\ pair \in PairOperators => EmitsOperator(pair)
        /\ (/\ At(pos) \in CharOperators
            /\ pair \notin PairOperators
            /\ pair # <<"/", "/">>) => EmitsOperator(<<At(pos)>>) ]_vars

\* "===": the pair first, then the last character of the input alone
OperatorMaximalMunchWitness ==
  /\ pc = "done"
  /\ source = <<"=", "=", "=">>
  /\ Len(tokens) = 2
  /\ tokens[1].value = <<"=", "=">>
  /\ tokens[2].value = <<"=">>

(***************************************************************************)
(* C6. Keyword exactness: a keyword or identifier token is a maximal run   *)
(* of letters, digits and underscores that starts with a letter or an      *)
(* underscore, and it is a keyword exactly when its whole text is one of   *)
(* the nine keywords.                                                      *)
(***************************************************************************)
KeywordTexts == { <<"i","f">>, <<"e","l","s","e">>, <<"w","h","i","l","e">>,
                  <<"f","o","r">>, <<"r","e","t","u","r","n">>,
                  <<"f","u","n","c","t","i","o","n">>,
                  <<"c","o","n","s","t">>, <<"l","e","t">>, <<"v","a","r">> }

KeywordExactness ==
  \A k \in 1..Len(tokens) :
     LET t == tokens[k]
         s == starts[k]
         e == s + Len(t.value)
     IN /\ (At(s) \in IdentStart <=> t.type \in {"keyword", "identifier"})
        /\ t.type \in {"keyword", "identifier"} =>
             /\ t.value # <<>>
             /\ t.value = Slice(source, s, e)
             /\ \A i \in s..(e - 1) : At(i) \in IdentPart
             /\ At(e) \notin IdentPart
             /\ (t.type = "keyword" <=> t.value \in KeywordTexts)

\* "iff": one identifier with the keyword if as a proper prefix
KeywordExactnessWitness ==
  /\ pc = "done"
  /\ \E k \in 1..Len(tokens) :
        /\ tokens[k].type = "identifier"
        /\ \E kw \in KeywordTexts :
              kw # tokens[k].value /\ IsPrefix(kw, tokens[k].value)

(***************************************************************************)
(* C7. String escape handling: a token starts at a quote exactly when it   *)
(* is a string token; when the literal has a closing quote (a later        *)
(* occurrence of its quote that no escaping backslash precedes), the token *)
(* runs from the opening quote to the first closing quote, both included,  *)
(* escapes verbatim, and the next iteration starts right after it.         *)
(***************************************************************************)
StringEscapeHandling ==
  \A k \in 1..Len(tokens) :
     LET t == tokens[k]
         s == starts[k]
     IN /\ (At(s) \in Quotes <=> t.type = "string")
        /\ (t.type = "string" /\ ClosingQuotes(s) # {}) =>
             LET e == Least(ClosingQuotes(s)) IN
             /\ t.value = Slice(source, s, e + 1)
             /\ IF k < Len(tokens) THEN starts[k + 1] > e
                ELSE pos > e /\ \A d \in discarded : d < s \/ d > e

\* a literal with an escaped quote, an escaped backslash or the other quote
\* inside, and closed
StringEscapeHandlingWitness ==
  /\ pc = "done"
  /\ Len(tokens) = 1
  /\ tokens[1].type = "string"
  /\ Len(tokens[1].value) = 4
  /\ tokens[1].value[2] = "\\"
  /\ tokens[1].value[3] = tokens[1].value[1]
  /\ tokens[1].value[4] = tokens[1].value[1]

(***************************************************************************)
(* C8. Unterminated string literals: when the input ends before a closing  *)
(* quote, the string token is the suffix of the input from the opening     *)
(* quote, it is the last token, and the scan stops with the cursor at the  *)
(* end of the input, not beyond it.                                        *)
(***************************************************************************)
Unterminated(k) ==
  tokens[k].type = "string" /\ ClosingQuotes(starts[k]) = {}

UnterminatedValueIsSuffix ==
  \A k \in 1..Len(tokens) :
     Unterminated(k) =>
        /\ tokens[k].value = Slice(source, starts[k], Len(source))
        /\ k = Len(tokens)

UnterminatedStringStopsAtEnd ==
  \A k \in 1..Len(tokens) :
     Unterminated(k) =>
        /\ tokens[k].value = Slice(source, starts[k], Len(source))
        /\ k = Len(tokens)
        /\ pc = "done" => pos = Len(source)

(***************************************************************************)
(* The subsequence of a token sequence without the tokens of some types,   *)
(* stated by positions: the j-th token of the result is the token at the   *)
(* j-th retained position.                                                 *)
(***************************************************************************)
Retained(in, types) == {i \in 1..Len(in) : in[i].type \notin types}

IsProjection(out, in, types) ==
  /\ Len(out) = Cardinality(Retained(in, types))
  /\ \A j \in 1..Len(out) :
        out[j] = in[CHOOSE i \in Retained(in, types) :
                      Cardinality({m \in Retained(in, types) : m <= i}) = j]

Range(f) == {f[i] : i \in DOMAIN f}

(***************************************************************************)
(* C9. stripComments returns exactly the subsequence of the tokens that    *)
(* are not comments and stripWhitespace the subsequence of those that are  *)
(* not whitespace: order and fields kept, nothing else removed, the empty  *)
(* sequence kept empty, and applying one filter again changes nothing.     *)
(***************************************************************************)
FiltersAreProjections ==
  /\ Range(applied) = {"stripComments"} =>
        IsProjection(output, input, {"comment"})
  /\ Range(applied) = {"stripWhitespace"} =>
        IsProjection(output, input, {"whitespace"})
  /\ (applied # <<>> /\ input = <<>>) => output = <<>>

\* stripComments applied twice to a sequence from which it removes some
\* tokens and keeps others
FiltersAreProjectionsWitness ==
  /\ Len(applied) >= 2
  /\ Range(applied) = {"stripComments"}
  /\ Len(output) > 0
  /\ Len(output) < Len(input)
  /\ \E i \in 1..Len(input) : input[i].type = "whitespace"

(***************************************************************************)
(* C10. The two filters commute: once both have been applied, in either    *)
(* order, the result is the same sequence, the one the other order gives,  *)
(* and it holds no comment token and no whitespace token.                  *)
(***************************************************************************)
FiltersCommute ==
  Range(applied) = {"stripComments", "stripWhitespace"} =>
     /\ output = stripWhitespace(stripComments(input))
     /\ output = stripComments(stripWhitespace(input))
     /\ IsProjection(output, input, {"comment", "whitespace"})
     /\ \A j \in 1..Len(output) :
           output[j].type \notin {"comment", "whitespace"}

\* stripWhitespace, then stripComments, on a comment followed by whitespace
\* and another token
FiltersCommuteWitness ==
  /\ applied = <<"stripWhitespace", "stripComments">>
  /\ Len(input) = 3
  /\ input[1].type = "comment"
  /\ input[2].type = "whitespace"
  /\ input[3].type = "identifier"
  /\ output = <<input[3]>>

(***************************************************************************)
(* C11. Progress and termination: every iteration of the scan loop, the    *)
(* one that skips an unknown character included, moves the cursor forward  *)
(* by one character or more, the cursor is bounded and an iteration or the *)
(* return is always possible until tokenize has returned, so the loop ends *)
(* for every input; the empty input returns the empty sequence.            *)
(***************************************************************************)
\* the cursor never passes the end by more than the two characters of an
\* escape and a closing quote, so a cursor that always advances stops
CursorBound == Len(source) + 2

\* the iteration of the branch the if-chain selects can run
IterationEnabled ==
  \/ Branch = "whitespace" /\ ENABLED Whitespace
  \/ Branch = "comment" /\ ENABLED Comment
  \/ Branch = "string" /\ ENABLED String
  \/ Branch = "number" /\ ENABLED Number
  \/ Branch = "identifier" /\ ENABLED Identifier
  \/ Branch = "multiCharOperator" /\ ENABLED MultiCharOperator
  \/ Branch = "singleCharOperator" /\ ENABLED SingleCharOperator
  \/ Branch = "punctuation" /\ ENABLED Punctuation
  \/ Branch = "unknown" /\ ENABLED Unknown

\* until tokenize has returned, an iteration or the return can run
NeverStuck ==
  \/ pc = "done"
  \/ ENABLED Return
  \/ IterationEnabled

ProgressAndTermination ==
  /\ [][Scanning => pos' > pos]_vars
  /\ [](pos <= CursorBound)
  /\ []NeverStuck
  /\ []((pc = "done" /\ source = <<>>) => tokens = <<>>)

\* the same, as the behaviours of the sequential loop: it returns
Terminates == <>(pc = "done")

\* returned, after iterations that pushed tokens and one that skipped
ProgressAndTerminationWitness ==
  /\ pc = "done"
  /\ discarded # {}
  /\ Len(tokens) >= 2

(***************************************************************************)
(* C12. Coverage and ordering: the tokens are non-empty substrings of the  *)
(* source that do not overlap, in strictly increasing start offset, with   *)
(* non-decreasing line; every character the cursor has passed lies in      *)
(* exactly one token or was discarded, never both; and a discarded         *)
(* character is unrecognized: no whitespace, quote, digit, letter or       *)
(* underscore, one-character operator or punctuation, and not the first    *)
(* character of a two-character operator.                                  *)
(***************************************************************************)
PunctuationChars == {"(", ")", "{", "}", "[", "]", ";", ",", "."}

End(k) == starts[k] + Len(tokens[k].value)

Covering(i) == {k \in 1..Len(tokens) : starts[k] <= i /\ i < End(k)}

Unrecognized(i) ==
  /\ At(i) \notin WhitespaceChars
  /\ At(i) \notin Quotes
  /\ At(i) \notin IdentPart
  /\ At(i) \notin CharOperators
  /\ At(i) \notin PunctuationChars
  /\ <<At(i), At(i + 1)>> \notin PairOperators

CoverageAndOrdering ==
  /\ \A k \in 1..Len(tokens) :
        /\ tokens[k].value # <<>>
        /\ starts[k] >= 0 /\ End(k) <= Len(source)
        /\ tokens[k].value = SubSeq(source, starts[k] + 1, End(k))
  /\ \A k \in 1..(Len(tokens) - 1) :
        /\ starts[k] < starts[k + 1]
        /\ End(k) <= starts[k + 1]
        /\ tokens[k].line <= tokens[k + 1].line
  /\ \A i \in 0..(Min(pos, Len(source)) - 1) :
        Cardinality(Covering(i)) + (IF i \in discarded THEN 1 ELSE 0) = 1
  /\ pc = "done" => pos >= Len(source)
  /\ \A i \in discarded : i < Len(source) /\ Unrecognized(i)

\* "i!f": two tokens, and only the character between them dropped
CoverageAndOrderingWitness ==
  /\ pc = "done"
  /\ Len(source) = 3
  /\ discarded = {1}
  /\ starts = <<0, 2>>
  /\ tokens[1].type = "keyword" \/ tokens[1].type = "identifier"

(***************************************************************************)
(* C13. Single-line comments: a token that starts at // is a comment token *)
(* (and only such a token is); its value runs from the // up to, not       *)
(* including, the next line feed or the end of the input, so it holds no   *)
(* line feed; the line feed that ends it starts the whitespace token that  *)
(* follows immediately; and its column is the column at which the //       *)
(* starts.                                                                 *)
(***************************************************************************)
\* the offset of the first line feed at or after offset s, or the length
LineEnd(s) ==
  Least({i \in s..Len(source) : i = Len(source) \/ At(i) = "\n"})

CommentExtent ==
  \A k \in 1..Len(tokens) :
     LET t == tokens[k]
         s == starts[k]
         e == LineEnd(s)
     IN /\ (At(s) = "/" /\ At(s + 1) = "/") <=> t.type = "comment"
        /\ t.type = "comment" =>
             /\ t.value = Slice(source, s, e)
             /\ \A j \in 1..Len(t.value) : t.value[j] # "\n"
             /\ IF k < Len(tokens)
                THEN /\ e < Len(source)
                     /\ starts[k + 1] = e
                     /\ tokens[k + 1].type = "whitespace"
                     /\ Head(tokens[k + 1].value) = "\n"
                ELSE pos = e /\ discarded \cap (s..e) = {}

SingleLineComments ==
  /\ CommentExtent
  /\ \A k \in 1..Len(tokens) :
        tokens[k].type = "comment" => tokens[k].column = ColumnOf(starts[k])

====
